---------------------------- MODULE Spec2Model ----------------------------
(***************************************************************************)
(* A model of aceso: the decay functions of aceso/decay.py and the gravity *)
(* model of aceso/gravity.py (GravityModel, TwoStepFCA, ThreeStepFCA).     *)
(*                                                                         *)
(* numpy's float64 arrays are modelled as sequences of extended reals: an  *)
(* exact signed rational, or one of the IEEE specials NaN, +inf, -inf.     *)
(* Rounding is not modelled; the specials and their arithmetic are.        *)
(* Numerators and denominators are arbitrary-precision naturals (the Huff  *)
(* sentinel 10**8 takes products beyond 32 bits).                          *)
(***************************************************************************)
EXTENDS Integers, Sequences, FiniteSets, TLC

(***************************************************************************)
(* Arbitrary-precision naturals: little-endian sequences of limbs in       *)
(* 0..Base-1 without leading zero limbs; <<>> is zero.                     *)
(***************************************************************************)
Base == 10^4

RECURSIVE BNOfInt(_)
BNOfInt(n) == IF n = 0 THEN <<>> ELSE <<n % Base>> \o BNOfInt(n \div Base)

RECURSIVE BNAddC(_, _, _)
BNAddC(a, b, c) ==
    IF a = <<>> /\ b = <<>>
    THEN IF c = 0 THEN <<>> ELSE <<c>>
    ELSE LET x == IF a = <<>> THEN 0 ELSE Head(a)
             y == IF b = <<>> THEN 0 ELSE Head(b)
             s == x + y + c
         IN  <<s % Base>> \o BNAddC(IF a = <<>> THEN a ELSE Tail(a),
                                     IF b = <<>> THEN b ELSE Tail(b),
                                     s \div Base)

BNAdd(a, b) == IF a = <<>> THEN b ELSE IF b = <<>> THEN a ELSE BNAddC(a, b, 0)

RECURSIVE BNMulLimb(_, _, _)
BNMulLimb(a, m, c) ==
    IF a = <<>>
    THEN IF c = 0 THEN <<>> ELSE <<c>>
    ELSE LET p == Head(a) * m + c
         IN  <<p % Base>> \o BNMulLimb(Tail(a), m, p \div Base)

RECURSIVE BNMulRec(_, _)
BNMulRec(a, b) ==
    IF b = <<>> THEN <<>>
    ELSE LET rest == BNMulRec(a, Tail(b))
             high == IF rest = <<>> THEN <<>> ELSE <<0>> \o rest
             low  == IF Head(b) = 0 THEN <<>> ELSE BNMulLimb(a, Head(b), 0)
         IN  BNAdd(low, high)

BNMul(a, b) ==
    IF a = <<>> \/ b = <<>> THEN <<>>
    ELSE IF a = <<1>> THEN b
    ELSE IF b = <<1>> THEN a
    ELSE IF Len(a) >= Len(b) THEN BNMulRec(a, b) ELSE BNMulRec(b, a)

\* -1, 0, 1 as a < b, a = b, a > b, comparing from the top limb down.
RECURSIVE BNCmpAt(_, _, _)
BNCmpAt(a, b, i) ==
    IF i = 0 THEN 0
    ELSE IF a[i] < b[i] THEN -1
    ELSE IF a[i] > b[i] THEN 1
    ELSE BNCmpAt(a, b, i - 1)

BNCmp(a, b) ==
    IF Len(a) < Len(b) THEN -1
    ELSE IF Len(a) > Len(b) THEN 1
    ELSE BNCmpAt(a, b, Len(a))

RECURSIVE BNStrip(_)
BNStrip(a) ==
    IF a = <<>> THEN a
    ELSE IF a[Len(a)] = 0 THEN BNStrip(SubSeq(a, 1, Len(a) - 1))
    ELSE a

\* a - b for a >= b.
RECURSIVE BNSubB(_, _, _)
BNSubB(a, b, borrow) ==
    IF a = <<>> THEN <<>>
    ELSE LET y == (IF b = <<>> THEN 0 ELSE Head(b)) + borrow
             x == Head(a)
         IN  IF x >= y
             THEN <<x - y>> \o BNSubB(Tail(a), IF b = <<>> THEN b ELSE Tail(b), 0)
             ELSE <<x + Base - y>> \o BNSubB(Tail(a), IF b = <<>> THEN b ELSE Tail(b), 1)

BNSub(a, b) == IF b = <<>> THEN a ELSE BNStrip(BNSubB(a, b, 0))

\* The value of a natural of at most two limbs, as an integer.
BNSmall(a) == Len(a) <= 2
BNToInt(a) ==
    IF a = <<>> THEN 0 ELSE IF Len(a) = 1 THEN a[1] ELSE a[1] + Base * a[2]

RECURSIVE GCD(_, _)
GCD(x, y) == IF y = 0 THEN x ELSE GCD(y, x % y)


(***************************************************************************)
(* float64 values: k = "fin" is the rational (-1)^neg * n/d (n, d naturals *)
(* as above, d > 0), k = "nan", "inf" and "ninf" are NaN, +inf and -inf.   *)
(* Every value carries the same fields, so that any two can be compared.   *)
(***************************************************************************)
NaN    == [k |-> "nan",  neg |-> FALSE, n |-> <<>>, d |-> <<1>>]
Inf    == [k |-> "inf",  neg |-> FALSE, n |-> <<>>, d |-> <<1>>]
NegInf == [k |-> "ninf", neg |-> TRUE,  n |-> <<>>, d |-> <<1>>]

\* The rational (-1)^neg * n/d, reduced when both parts fit an integer.
Fin(neg, n, d) ==
    IF n = <<>> THEN [k |-> "fin", neg |-> FALSE, n |-> <<>>, d |-> <<1>>]
    ELSE IF BNSmall(n) /\ BNSmall(d)
    THEN LET g == GCD(BNToInt(n), BNToInt(d))
         IN  [k |-> "fin", neg |-> neg,
              n |-> BNOfInt(BNToInt(n) \div g), d |-> BNOfInt(BNToInt(d) \div g)]
    ELSE [k |-> "fin", neg |-> neg, n |-> n, d |-> d]

\* The float of the integer i, and of the fraction a/b of naturals.
F(i) == IF i < 0 THEN Fin(TRUE, BNOfInt(-i), <<1>>) ELSE Fin(FALSE, BNOfInt(i), <<1>>)
Frac(a, b) == Fin(FALSE, BNOfInt(a), BNOfInt(b))
Zero == F(0)
One == F(1)

IsNaN(x) == x.k = "nan"
IsInf(x) == x.k \in {"inf", "ninf"}
IsFin(x) == x.k = "fin"
IsZero(x) == x.k = "fin" /\ x.n = <<>>
IsNegative(x) == x.k = "ninf" \/ (x.k = "fin" /\ x.neg)

\* -1, 0, 1 as |x| < |y|, |x| = |y|, |x| > |y|, for finite x and y.
CmpAbs(x, y) == BNCmp(BNMul(x.n, y.d), BNMul(y.n, x.d))

\* -1, 0, 1 as x < y, x = y, x > y, for x and y other than NaN.
Cmp(x, y) ==
    IF x.k = "ninf" THEN (IF y.k = "ninf" THEN 0 ELSE -1)
    ELSE IF x.k = "inf" THEN (IF y.k = "inf" THEN 0 ELSE 1)
    ELSE IF y.k = "ninf" THEN 1
    ELSE IF y.k = "inf" THEN -1
    ELSE IF x.neg /\ ~y.neg THEN -1
    ELSE IF ~x.neg /\ y.neg THEN 1
    ELSE IF x.neg THEN CmpAbs(y, x)
    ELSE CmpAbs(x, y)

\* IEEE comparisons: every comparison with NaN is false.
LessEqual(x, y) == ~IsNaN(x) /\ ~IsNaN(y) /\ Cmp(x, y) <= 0
Equal(x, y) == ~IsNaN(x) /\ ~IsNaN(y) /\ Cmp(x, y) = 0

Negative(x) ==
    IF x.k = "nan" THEN NaN
    ELSE IF x.k = "inf" THEN NegInf
    ELSE IF x.k = "ninf" THEN Inf
    ELSE Fin(~x.neg, x.n, x.d)

Add(x, y) ==
    IF IsNaN(x) \/ IsNaN(y) THEN NaN
    ELSE IF IsInf(x) THEN (IF IsInf(y) /\ x.k # y.k THEN NaN ELSE x)
    ELSE IF IsInf(y) THEN y
    ELSE IF x.d = y.d
    THEN IF x.neg = y.neg THEN Fin(x.neg, BNAdd(x.n, y.n), x.d)
         ELSE IF BNCmp(x.n, y.n) >= 0 THEN Fin(x.neg, BNSub(x.n, y.n), x.d)
         ELSE Fin(y.neg, BNSub(y.n, x.n), x.d)
    ELSE LET a == BNMul(x.n, y.d)
             b == BNMul(y.n, x.d)
             d == BNMul(x.d, y.d)
         IN  IF x.neg = y.neg THEN Fin(x.neg, BNAdd(a, b), d)
             ELSE IF BNCmp(a, b) >= 0 THEN Fin(x.neg, BNSub(a, b), d)
             ELSE Fin(y.neg, BNSub(b, a), d)

Subtract(x, y) == Add(x, Negative(y))

Multiply(x, y) ==
    IF IsNaN(x) \/ IsNaN(y) THEN NaN
    ELSE IF IsInf(x) \/ IsInf(y)
    THEN IF IsZero(x) \/ IsZero(y) THEN NaN
         ELSE IF IsNegative(x) # IsNegative(y) THEN NegInf ELSE Inf
    ELSE Fin(x.neg # y.neg, BNMul(x.n, y.n), BNMul(x.d, y.d))

\* x / y (np.true_divide): x/0 is +-inf, 0/0 and inf/inf are NaN.
Divide(x, y) ==
    IF IsNaN(x) \/ IsNaN(y) THEN NaN
    ELSE IF IsInf(y)
    THEN IF IsInf(x) THEN NaN ELSE Zero
    ELSE IF IsZero(y)
    THEN IF IsZero(x) THEN NaN
         ELSE IF IsNegative(x) THEN NegInf ELSE Inf
    ELSE IF IsInf(x)
    THEN IF IsNegative(x) # IsNegative(y) THEN NegInf ELSE Inf
    ELSE Fin(x.neg # y.neg, BNMul(x.n, y.d), BNMul(x.d, y.n))

\* np.reciprocal
Reciprocal(x) == Divide(One, x)

\* np.power(x, e) for an integer e >= -1: pow(x, 0) is 1 for every x, NaN too.
RECURSIVE Power(_, _)
Power(x, e) ==
    IF e = 0 THEN One
    ELSE IF e = -1 THEN Reciprocal(x)
    ELSE IF e = 1 THEN x
    ELSE Multiply(x, Power(x, e - 1))

\* np.maximum: NaN when either is NaN.
Maximum(x, y) ==
    IF IsNaN(x) \/ IsNaN(y) THEN NaN ELSE IF Cmp(x, y) >= 0 THEN x ELSE y

\* np.clip(a, a_min, a_max): NaN stays NaN.
Clip(a, a_min, a_max) ==
    IF IsNaN(a) THEN NaN
    ELSE IF Cmp(a, a_min) < 0 THEN a_min
    ELSE IF Cmp(a, a_max) > 0 THEN a_max
    ELSE a

\* np.exp. exp(-inf) = 0, exp(0) = 1, exp(inf) = inf and exp(NaN) = NaN are
\* exact. A finite x # 0 has an irrational image: it is given the rational
\* 1/(1 + |x| + x^2/2) for x < 0 (and 1 + x + x^2/2 for x > 0), which lies
\* strictly between 0 and 1 and is strictly monotone in x, as exp is.
Exp(x) ==
    IF IsNaN(x) THEN NaN
    ELSE IF x.k = "inf" THEN Inf
    ELSE IF x.k = "ninf" THEN Zero
    ELSE LET y == Fin(FALSE, x.n, x.d)
             t == Add(One, Add(y, Divide(Multiply(y, y), F(2))))
         IN  IF x.neg THEN Reciprocal(t) ELSE t

\* np.cos(t * math.pi), exact at the multiples of 1/6 in [0, 1] whose cosine
\* is rational; scales up to 3 over integer distances produce no other t.
CosTimesPi(t) ==
    CASE IsNaN(t)              -> NaN
      [] Equal(t, Zero)        -> One
      [] Equal(t, Frac(1, 3))  -> Frac(1, 2)
      [] Equal(t, Frac(1, 2))  -> Zero
      [] Equal(t, Frac(2, 3))  -> Negative(Frac(1, 2))
      [] Equal(t, One)        -> F(-1)

\* np.nansum of a sequence: the sum with every NaN taken as 0.
RECURSIVE NanSum(_)
NanSum(xs) ==
    IF xs = <<>> THEN Zero
    ELSE IF IsNaN(Head(xs)) THEN NanSum(Tail(xs))
    ELSE Add(Head(xs), NanSum(Tail(xs)))

(***************************************************************************)
(* aceso/decay.py, on one entry of the distance array (the functions are   *)
(* elementwise).                                                           *)
(***************************************************************************)
parabolic_decay(distance, scale) ==
    Maximum(Divide(Subtract(Power(scale, 2), Power(distance, 2)), Power(scale, 2)),
            Zero)

gaussian_decay(distance, sigma) ==
    Exp(Negative(Divide(Power(distance, 2), Multiply(F(2), Power(sigma, 2)))))

raised_cosine_decay(distance, scale) ==
    LET masked == Clip(distance, Zero, scale)
    IN  Divide(Add(One, CosTimesPi(Divide(masked, scale))), F(2))

\* Mutant: the catchment is open at the scale.
uniform_decay_open(distance, scale) ==
    IF LessEqual(distance, scale) /\ ~Equal(distance, scale) THEN One ELSE Zero

uniform_decay(distance, scale) ==
    IF LessEqual(distance, scale) THEN One ELSE Zero

\* NAME_TO_FUNCTION_MAP: the functions are named by their def names.
NAME_TO_FUNCTION_MAP ==
    [uniform       |-> "uniform_decay",
     raised_cosine |-> "raised_cosine_decay",
     gaussian      |-> "gaussian_decay",
     parabolic     |-> "parabolic_decay",
     epanechnikov  |-> "parabolic_decay"]

\* str.lower on the names the model passes.
lower(name) ==
    CASE name = "Uniform"  -> "uniform"
      [] name = "GAUSSIAN" -> "gaussian"
      [] OTHER             -> name

NoError == [type |-> "none", params |-> {}]

\* decay.get_decay_function: the function, or the KeyError of the lookup.
get_decay_function(name) ==
    IF lower(name) \in DOMAIN NAME_TO_FUNCTION_MAP
    THEN [raised |-> NoError, value |-> NAME_TO_FUNCTION_MAP[lower(name)]]
    ELSE [raised |-> [type |-> "KeyError", params |-> {}], value |-> "none"]

\* list(inspect.signature(f).parameters) of the catalog's functions.
parameters(func) ==
    IF func = "gaussian_decay" THEN <<"distance_array", "sigma">>
    ELSE <<"distance_array", "scale">>

Range(seq) == {seq[i] : i \in 1..Len(seq)}

\* A mapping restricted to the keys in S.
Restrict(mapping, S) == [key \in (DOMAIN mapping) \cap S |-> mapping[key]]

\* functools.partial(func, **keywords); a function that was not wrapped is
\* the partial with no keywords.
partial(func, keywords) == [func |-> func, keywords |-> keywords]
NoFunction == partial("none", <<>>)

(***************************************************************************)
(* GravityModel._bind_decay_function_parameters (Python 3 branch).         *)
(* decay_function is [str |-> TRUE, name |-> a name] or [str |-> FALSE,    *)
(* name |-> a function of decay.py]; decay_params maps parameter names to  *)
(* values. The result carries the exception raised (or none), the          *)
(* parameters warned about and the callable returned.                      *)
(***************************************************************************)
\* Mutant: the leading distance argument is taken for a parameter to supply.
missing_params_with_first(func, decay_params) ==
    {key \in Range(parameters(func)) : key \notin DOMAIN decay_params}

missing_params_of(func, decay_params) ==
    {key \in Range(Tail(parameters(func))) : key \notin DOMAIN decay_params}

\* Mutant: every parameter given is bound, declared or not.
valid_params_unfiltered(func, decay_params) == decay_params

valid_params_of(func, decay_params) ==
    Restrict(decay_params, Range(parameters(func)))

bind_decay_function_parameters(decay_function, decay_params) ==
    LET looked == IF decay_function.str
                  THEN get_decay_function(decay_function.name)
                  ELSE [raised |-> NoError, value |-> decay_function.name]
        func == looked.value
        missing_params == missing_params_of(func, decay_params)
        valid_params == valid_params_of(func, decay_params)
    IN  IF looked.raised.type # "none"
        THEN [raised |-> looked.raised, warnings |-> {}, value |-> NoFunction]
        ELSE IF missing_params # {}
        THEN [raised |-> [type |-> "ValueError", params |-> missing_params],
              warnings |-> {}, value |-> NoFunction]
        ELSE [raised |-> NoError,
              warnings |-> {param \in DOMAIN decay_params :
                                param \notin DOMAIN valid_params},
              value |-> IF DOMAIN valid_params # {}
                        THEN partial(func, valid_params)
                        ELSE partial(func, <<>>)]

\* Calling the bound callable with the distance as its one positional
\* argument raises TypeError when distance_array was bound as a keyword too.
call_raises(decay_function) == "distance_array" \in DOMAIN decay_function.keywords

\* self.decay_function(distance), on one entry.
call_decay_function(decay_function, distance) ==
    CASE decay_function.func = "uniform_decay" ->
            uniform_decay(distance, decay_function.keywords["scale"])
      [] decay_function.func = "raised_cosine_decay" ->
            raised_cosine_decay(distance, decay_function.keywords["scale"])
      [] decay_function.func = "gaussian_decay" ->
            gaussian_decay(distance, decay_function.keywords["sigma"])
      [] decay_function.func = "parabolic_decay" ->
            parabolic_decay(distance, decay_function.keywords["scale"])

\* The bound callable applied to an array: numpy applies it to every entry.
call_on_array(decay_function, matrix) ==
    [i \in 1..Len(matrix) |->
        [j \in 1..Len(matrix[i]) |-> call_decay_function(decay_function, matrix[i][j])]]

(***************************************************************************)
(* aceso/gravity.py: the three numeric methods of GravityModel, on         *)
(* matrices given as sequences of rows. self is the record of the model's  *)
(* attributes decay_function, huff_normalization, suboptimality_exponent.  *)
(***************************************************************************)
\* The weight written over an infinite inverse distance (10**8).
ZeroDistanceWeight == 10^8

NumRows(matrix) == Len(matrix)
NumCols(matrix) == IF matrix = <<>> THEN 0 ELSE Len(matrix[1])
Column(matrix, j) == [i \in 1..Len(matrix) |-> matrix[i][j]]

\* Mutant: the infinite inverse distances are left as they are.
replace_inf_missing(weight) == weight

\* weights[np.isinf(weights)] = 10**8
replace_inf(weight) == IF IsInf(weight) THEN F(ZeroDistanceWeight) ELSE weight

inverse_distance(distance) == replace_inf(Power(distance, -1))

calculate_interaction_probabilities(distance_matrix) ==
    LET weights == [i \in 1..Len(distance_matrix) |->
                      [j \in 1..Len(distance_matrix[i]) |->
                          inverse_distance(distance_matrix[i][j])]]
        sums == [i \in 1..NumRows(weights) |-> NanSum(weights[i])]
    IN  [i \in 1..NumRows(weights) |->
            [j \in 1..Len(weights[i]) |-> Divide(weights[i][j], sums[i])]]

\* What the method computes when Huff normalization is on, else nothing.
probabilities_if_huff(self, distance_matrix) ==
    IF self.huff_normalization
    THEN calculate_interaction_probabilities(distance_matrix)
    ELSE <<>>

\* Mutant: the demand weights are left out of the demand matrix.
demand_matrix_unweighted(self, distance_matrix, demand_array, probabilities) ==
    [i \in 1..NumRows(distance_matrix) |->
        [j \in 1..Len(distance_matrix[i]) |->
            LET weighted == call_decay_function(self.decay_function,
                                                distance_matrix[i][j])
            IN  IF self.huff_normalization
                THEN Multiply(weighted, probabilities[i][j])
                ELSE weighted]]

\* The matrix demand_matrix of _calculate_demand_potentials; probabilities
\* is what _calculate_interaction_probabilities returned, read when Huff
\* normalization is on.
demand_matrix_of(self, distance_matrix, demand_array, probabilities) ==
    [i \in 1..NumRows(distance_matrix) |->
        [j \in 1..Len(distance_matrix[i]) |->
            LET weighted == Multiply(demand_array[i],
                                call_decay_function(self.decay_function,
                                                    distance_matrix[i][j]))
            IN  IF self.huff_normalization
                THEN Multiply(weighted, probabilities[i][j])
                ELSE weighted]]

\* np.nansum(matrix, axis=0) of a matrix with num_cols columns
column_sums(matrix, num_cols) == [j \in 1..num_cols |-> NanSum(Column(matrix, j))]

\* Mutant: the infinite inverses are left as they are.
inverse_demand_unguarded(potential) == Reciprocal(potential)

\* inverse_demands = np.reciprocal(p); inverse_demands[np.isinf(..)] = 0.0
inverse_demand(potential) ==
    LET inverse == Reciprocal(potential)
    IN  IF IsInf(inverse) THEN Zero ELSE inverse

\* Mutant: the interaction probabilities are left out of the access ratios.
access_ratio_matrix_without_huff(self, distance_matrix, supply_array, inverse_demands, probabilities) ==
    [i \in 1..NumRows(distance_matrix) |->
        [j \in 1..Len(distance_matrix[i]) |->
            Multiply(Multiply(supply_array[j], inverse_demands[j]),
                     Power(call_decay_function(self.decay_function, distance_matrix[i][j]),
                           self.suboptimality_exponent))]]

\* The matrix access_ratio_matrix of calculate_accessibility_scores, from
\* the inverse demands.
access_ratio_matrix_of(self, distance_matrix, supply_array, inverse_demands, probabilities) ==
    [i \in 1..NumRows(distance_matrix) |->
        [j \in 1..Len(distance_matrix[i]) |->
            LET ratio == Multiply(
                            Multiply(supply_array[j], inverse_demands[j]),
                            Power(call_decay_function(self.decay_function,
                                                      distance_matrix[i][j]),
                                  self.suboptimality_exponent))
            IN  IF self.huff_normalization
                THEN Multiply(ratio, probabilities[i][j])
                ELSE ratio]]

\* Mutant: np.sum in place of np.nansum.
row_sums_propagating(matrix) ==
    [i \in 1..NumRows(matrix) |->
        IF \E j \in 1..Len(matrix[i]) : IsNaN(matrix[i][j]) THEN NaN ELSE NanSum(matrix[i])]

\* np.nansum(access_ratio_matrix, axis=1)
row_sums(matrix) == [i \in 1..NumRows(matrix) |-> NanSum(matrix[i])]

\* np.ones(n)
ones(n) == [i \in 1..n |-> One]

\* calculate_accessibility_scores as one call run alone from its arguments
\* (demand and supply are None or Some(array)): the value it returns.
calculate_accessibility_scores(self, distance_matrix, demand, supply) ==
    LET demand_array == IF demand.none THEN ones(NumRows(distance_matrix)) ELSE demand.value
        supply_array == IF supply.none THEN ones(NumCols(distance_matrix)) ELSE supply.value
        probabilities == probabilities_if_huff(self, distance_matrix)
        demand_matrix == demand_matrix_of(self, distance_matrix, demand_array, probabilities)
        demand_potentials == column_sums(demand_matrix, NumCols(distance_matrix))
        inverse_demands == [j \in 1..Len(demand_potentials) |->
                               inverse_demand(demand_potentials[j])]
    IN  row_sums(access_ratio_matrix_of(self, distance_matrix, supply_array,
                                        inverse_demands, probabilities))

(***************************************************************************)
(* Bounds of the model and the inputs drawn within them.                   *)
(***************************************************************************)
MaxScale == 1
MaxExponent == 1
MaxWeight == 1

\* The radius and the distance matrix of tests/test_gravity.py.
TestRadius == 6
TestMatrix == << <<F(5), F(5)>>, <<F(10), Zero>>, <<F(15), F(15)>> >>

\* Distances at, within and beyond the scales, and the two sentinels.
DistanceValues == {Zero, One, F(2), NaN, Inf}
ScaleValues == {F(s) : s \in 1..MaxScale}
WeightValues == {F(w) : w \in 0..MaxWeight}

\* [num_demand, num_supply] of the matrices drawn. Every matrix is called
\* with the default weights; a matrix of one entry also with each array given
\* or not, and a matrix of two entries also with both arrays given.
Shapes == {<<1, 1>>, <<1, 2>>, <<2, 1>>, <<2, 2>>}
WeightedShapes == {<<1, 2>>, <<2, 1>>}

Matrices(shape) == [1..shape[1] -> [1..shape[2] -> DistanceValues]]
DistanceMatrices == UNION {Matrices(shape) : shape \in Shapes}

\* An optional array argument: None, or the array given.
None == [none |-> TRUE, value |-> <<>>]
Some(array) == [none |-> FALSE, value |-> array]
WeightArrays(n) == [1..n -> WeightValues]
OptionalWeights(n) == {None} \cup {Some(array) : array \in WeightArrays(n)}

Name(name) == [str |-> TRUE, name |-> name]
Callable(func) == [str |-> FALSE, name |-> func]

CatalogNames == {"uniform", "raised_cosine", "gaussian", "parabolic"}
Functions == {NAME_TO_FUNCTION_MAP[name] : name \in DOMAIN NAME_TO_FUNCTION_MAP}

\* What the binding is tried on: names of the catalog in several cases, a
\* name it lacks, and the functions themselves.
DecayFunctionArgs ==
    {Name(name) : name \in DOMAIN NAME_TO_FUNCTION_MAP \cup {"Uniform", "GAUSSIAN", "linear"}}
        \cup {Callable(func) : func \in Functions}
ParamKeys == {"distance_array", "scale", "sigma", "extra_param"}
DecayParamArgs ==
    UNION {[keys -> {value}] : keys \in SUBSET ParamKeys, value \in ScaleValues}

\* The one parameter of a catalog function, bound to a value.
ParamsFor(name, value) ==
    [key \in Range(Tail(parameters(NAME_TO_FUNCTION_MAP[name]))) |-> value]

(***************************************************************************)
(* The state: the constructor's arguments and outcome, the model built,    *)
(* and the arguments, locals and result of one call.                       *)
(***************************************************************************)
VARIABLES
    pc,                        \* where the program is
    args,                      \* the constructor called and its arguments
    self,                      \* the attributes of the model built
    raised,                    \* the exception raised, if any
    warnings,                  \* the parameters warnings.warn named
    decayed,                   \* self.decay_function(distance_matrix)
    distance_matrix,           \* the caller's distance matrix
    demand_array_arg,          \* the caller's demand_array (or None)
    supply_array_arg,          \* the caller's supply_array (or None)
    demand_array,              \* the local demand_array, after the default
    supply_array,              \* the local supply_array, after the default
    interaction_probabilities, \* _calculate_interaction_probabilities(..)
    demand_matrix,             \* the local of _calculate_demand_potentials
    demand_potentials,
    inverse_demands,
    access_ratio_matrix,
    result,                    \* the scores returned
    current,                   \* the call (thread) that is running
    suspended                  \* the names of the call that is not running

construction == <<args, self, raised, warnings>>
locals == <<decayed, distance_matrix, demand_array_arg, supply_array_arg,
            demand_array, supply_array, interaction_probabilities,
            demand_matrix, demand_potentials, inverse_demands,
            access_ratio_matrix, result>>
threads == <<current, suspended>>
vars == <<pc, construction, locals, threads>>

NoArgs == [cls |-> "none", decay_function |-> Name("none"), decay_params |-> <<>>,
           huff_normalization |-> FALSE, suboptimality_exponent |-> 1]
NoSelf == [decay_function |-> NoFunction, huff_normalization |-> FALSE,
           suboptimality_exponent |-> 1]

\* The names of a call that has not begun.
NoCall ==
    [pc |-> "ready", decayed |-> <<>>, distance_matrix |-> <<>>,
     demand_array_arg |-> None, supply_array_arg |-> None,
     demand_array |-> <<>>, supply_array |-> <<>>,
     interaction_probabilities |-> <<>>, demand_matrix |-> <<>>,
     demand_potentials |-> <<>>, inverse_demands |-> <<>>,
     access_ratio_matrix |-> <<>>, result |-> <<>>]

Init ==
    /\ pc = "new"
    /\ args = NoArgs
    /\ self = NoSelf
    /\ raised = NoError
    /\ warnings = {}
    /\ decayed = <<>>
    /\ distance_matrix = <<>>
    /\ demand_array_arg = None
    /\ supply_array_arg = None
    /\ demand_array = <<>>
    /\ supply_array = <<>>
    /\ interaction_probabilities = <<>>
    /\ demand_matrix = <<>>
    /\ demand_potentials = <<>>
    /\ inverse_demands = <<>>
    /\ access_ratio_matrix = <<>>
    /\ result = <<>>
    /\ current = 1
    /\ suspended = NoCall

\* GravityModel.__init__, reached as cls(..) or through super().__init__.
GravityModel__init__(cls, decay_function, decay_params, huff_normalization, suboptimality_exponent) ==
    LET bound == bind_decay_function_parameters(decay_function, decay_params)
    IN  /\ pc = "new"
        /\ args' = [cls |-> cls, decay_function |-> decay_function,
                    decay_params |-> decay_params,
                    huff_normalization |-> huff_normalization,
                    suboptimality_exponent |-> suboptimality_exponent]
        /\ raised' = bound.raised
        /\ warnings' = bound.warnings
        /\ IF bound.raised.type # "none"
           THEN pc' = "raised" /\ self' = self
           ELSE /\ pc' = "ready"
                /\ self' = [decay_function |-> bound.value,
                            huff_normalization |-> huff_normalization,
                            suboptimality_exponent |-> suboptimality_exponent]
        /\ UNCHANGED <<locals, threads>>

\* TwoStepFCA.__init__(radius)
TwoStepFCA__init__(radius) ==
    GravityModel__init__("TwoStepFCA", Name("uniform"), [scale |-> radius], FALSE, 1)

\* ThreeStepFCA.__init__(decay_function, decay_params)
ThreeStepFCA__init__(decay_function, decay_params) ==
    GravityModel__init__("ThreeStepFCA", decay_function, decay_params, TRUE, 1)

\* self.decay_function(distance_matrix), as decay's tests call the functions.
ApplyDecay(matrix) ==
    /\ pc = "ready"
    /\ distance_matrix' = matrix
    /\ IF call_raises(self.decay_function)
       THEN /\ pc' = "raised"
            /\ raised' = [type |-> "TypeError", params |-> {"distance_array"}]
            /\ decayed' = decayed
       ELSE /\ pc' = "applied"
            /\ raised' = raised
            /\ decayed' = call_on_array(self.decay_function, matrix)
    /\ UNCHANGED <<args, self, warnings, demand_array_arg, supply_array_arg,
                   demand_array, supply_array, interaction_probabilities,
                   demand_matrix, demand_potentials, inverse_demands,
                   access_ratio_matrix, result, threads>>

\* calculate_accessibility_scores, lines 152-155: the arguments and defaults.
Call(matrix, demand, supply) ==
    /\ pc = "ready"
    /\ distance_matrix' = matrix
    /\ demand_array_arg' = demand
    /\ supply_array_arg' = supply
    /\ demand_array' = IF demand.none THEN ones(NumRows(matrix)) ELSE demand.value
    /\ supply_array' = IF supply.none THEN ones(NumCols(matrix)) ELSE supply.value
    /\ pc' = "called"
    /\ UNCHANGED <<construction, decayed, interaction_probabilities, demand_matrix,
                   demand_potentials, inverse_demands, access_ratio_matrix, result,
                   threads>>

\* lines 157-160: _calculate_demand_potentials
DemandPotentials ==
    /\ pc = "called"
    /\ interaction_probabilities' = probabilities_if_huff(self, distance_matrix)
    /\ demand_matrix' = demand_matrix_of(self, distance_matrix, demand_array,
                                         interaction_probabilities')
    /\ demand_potentials' = column_sums(demand_matrix', NumCols(distance_matrix))
    /\ pc' = "potentials"
    /\ UNCHANGED <<construction, decayed, distance_matrix, demand_array_arg,
                   supply_array_arg, demand_array, supply_array, inverse_demands,
                   access_ratio_matrix, result, threads>>

\* lines 161-162: the inverse demands
InverseDemands ==
    /\ pc = "potentials"
    /\ inverse_demands' = [j \in 1..Len(demand_potentials) |->
                              inverse_demand(demand_potentials[j])]
    /\ pc' = "inverse"
    /\ UNCHANGED <<construction, decayed, distance_matrix, demand_array_arg,
                   supply_array_arg, demand_array, supply_array,
                   interaction_probabilities, demand_matrix, demand_potentials,
                   access_ratio_matrix, result, threads>>

\* lines 163-170: the access ratios and their row sums, returned
AccessRatios ==
    /\ pc = "inverse"
    /\ access_ratio_matrix' =
          access_ratio_matrix_of(self, distance_matrix, supply_array, inverse_demands,
                                 probabilities_if_huff(self, distance_matrix))
    /\ result' = row_sums(access_ratio_matrix')
    /\ pc' = "done"
    /\ UNCHANGED <<construction, decayed, distance_matrix, demand_array_arg,
                   supply_array_arg, demand_array, supply_array,
                   interaction_probabilities, demand_matrix, demand_potentials,
                   inverse_demands, threads>>

(***************************************************************************)
(* SpecDecay: a GravityModel is constructed from any decay function and    *)
(* parameter mapping, and the callable it bound is applied to a distance.  *)
(***************************************************************************)
Construct ==
    \E decay_function \in DecayFunctionArgs, decay_params \in DecayParamArgs :
        GravityModel__init__("GravityModel", decay_function, decay_params, FALSE, 1)

Apply ==
    \E distance \in DistanceValues : ApplyDecay(<< <<distance>> >>)

NextDecay == Construct \/ Apply

SpecDecay == Init /\ [][NextDecay]_vars

(***************************************************************************)
(* Spec: a model of one of the three classes is constructed with the       *)
(* parameters its decay function declares, and one call of                 *)
(* calculate_accessibility_scores runs step by step.                       *)
(***************************************************************************)
NewGravityModel ==
    \E name \in CatalogNames, scale \in ScaleValues,
       huff_normalization \in BOOLEAN, suboptimality_exponent \in 0..MaxExponent :
        GravityModel__init__("GravityModel", Name(name), ParamsFor(name, scale),
                             huff_normalization, suboptimality_exponent)

NewTwoStepFCA ==
    \E radius \in ScaleValues \cup {F(TestRadius)} : TwoStepFCA__init__(radius)

NewThreeStepFCA ==
    \/ \E name \in CatalogNames, scale \in ScaleValues :
          ThreeStepFCA__init__(Name(name), ParamsFor(name, scale))
    \/ ThreeStepFCA__init__(Name("uniform"), [scale |-> F(TestRadius)])

CallScores ==
    \/ \E matrix \in DistanceMatrices \cup {TestMatrix} : Call(matrix, None, None)
    \/ \E matrix \in Matrices(<<1, 1>>),
          demand \in OptionalWeights(1), supply \in OptionalWeights(1) :
          Call(matrix, demand, supply)
    \/ \E shape \in WeightedShapes :
          \E matrix \in Matrices(shape),
             demand \in WeightArrays(shape[1]), supply \in WeightArrays(shape[2]) :
              Call(matrix, Some(demand), Some(supply))

Next ==
    \/ NewGravityModel
    \/ NewTwoStepFCA
    \/ NewThreeStepFCA
    \/ CallScores
    \/ DemandPotentials
    \/ InverseDemands
    \/ AccessRatios

Spec == Init /\ [][Next]_vars

(***************************************************************************)
(* SpecCalls: two callers (threads) call calculate_accessibility_scores on *)
(* one model, again and again, their steps interleaved. The names of a     *)
(* call (its arguments and locals, lines 127-170) belong to the call: the  *)
(* variables above are those of the call that is running, suspended those *)
(* of the other. The in-place statements of the method (lines 162, 169,    *)
(* 182 and 202) each write into an array the call itself allocated just    *)
(* before (by np.reciprocal, a product, np.power), never into an argument. *)
(***************************************************************************)
Calls == {1, 2}

\* The names of the call that is running.
Frame ==
    [pc |-> pc, decayed |-> decayed, distance_matrix |-> distance_matrix,
     demand_array_arg |-> demand_array_arg, supply_array_arg |-> supply_array_arg,
     demand_array |-> demand_array, supply_array |-> supply_array,
     interaction_probabilities |-> interaction_probabilities,
     demand_matrix |-> demand_matrix, demand_potentials |-> demand_potentials,
     inverse_demands |-> inverse_demands,
     access_ratio_matrix |-> access_ratio_matrix, result |-> result]

\* Mutant: the potentials are kept in one place that the calls share.
resume_shared_potentials(frame) ==
    [frame EXCEPT !.demand_potentials = demand_potentials]

\* What a call finds under its names when it runs again: what it left.
resume(frame) == frame

\* The scheduler runs the other call.
Switch ==
    LET next == resume(suspended)
    IN  /\ pc \in {"ready", "called", "potentials", "inverse", "done"}
        /\ current' = 3 - current
        /\ suspended' = Frame
        /\ pc' = next.pc
        /\ decayed' = next.decayed
        /\ distance_matrix' = next.distance_matrix
        /\ demand_array_arg' = next.demand_array_arg
        /\ supply_array_arg' = next.supply_array_arg
        /\ demand_array' = next.demand_array
        /\ supply_array' = next.supply_array
        /\ interaction_probabilities' = next.interaction_probabilities
        /\ demand_matrix' = next.demand_matrix
        /\ demand_potentials' = next.demand_potentials
        /\ inverse_demands' = next.inverse_demands
        /\ access_ratio_matrix' = next.access_ratio_matrix
        /\ result' = next.result
        /\ UNCHANGED construction

\* line 170: the call has returned; its caller may call again.
Return ==
    /\ pc = "done"
    /\ pc' = "ready"
    /\ decayed' = NoCall.decayed
    /\ distance_matrix' = NoCall.distance_matrix
    /\ demand_array_arg' = NoCall.demand_array_arg
    /\ supply_array_arg' = NoCall.supply_array_arg
    /\ demand_array' = NoCall.demand_array
    /\ supply_array' = NoCall.supply_array
    /\ interaction_probabilities' = NoCall.interaction_probabilities
    /\ demand_matrix' = NoCall.demand_matrix
    /\ demand_potentials' = NoCall.demand_potentials
    /\ inverse_demands' = NoCall.inverse_demands
    /\ access_ratio_matrix' = NoCall.access_ratio_matrix
    /\ result' = NoCall.result
    /\ UNCHANGED <<construction, threads>>

\* The model the callers share: each decay function, with and without Huff
\* normalization, at each exponent.
NewSharedModel ==
    \E name \in CatalogNames, huff_normalization \in BOOLEAN,
       suboptimality_exponent \in 0..MaxExponent :
        GravityModel__init__("GravityModel", Name(name), ParamsFor(name, One),
                             huff_normalization, suboptimality_exponent)

\* The matrices the callers pass: the tests' matrix and every row of two
\* distances among 0, 1, NaN and +inf, with the default weights, and a row
\* with each demand array.
SharedRows == {<< <<x, y>> >> : x, y \in {Zero, One, NaN, Inf}}

CallShared ==
    \/ \E matrix \in SharedRows \cup {TestMatrix} : Call(matrix, None, None)
    \/ \E demand \in WeightArrays(1) : Call(<< <<One, F(2)>> >>, Some(demand), None)

NextCalls ==
    \/ NewSharedModel
    \/ CallShared
    \/ DemandPotentials
    \/ InverseDemands
    \/ AccessRatios
    \/ Return
    \/ Switch

SpecCalls == Init /\ [][NextCalls]_vars

(***************************************************************************)
(* The properties checked. Sums written out in them are plain sums, in     *)
(* which a NaN would propagate; equality of values is Equal.               *)
(***************************************************************************)
RECURSIVE Sum(_)
Sum(xs) == IF xs = <<>> THEN Zero ELSE Add(Head(xs), Sum(Tail(xs)))

\* |x - expected| <= tolerance
Within(x, expected, tolerance) ==
    /\ LessEqual(x, Add(expected, tolerance))
    /\ LessEqual(expected, Add(x, tolerance))

SameArray(xs, expected) ==
    /\ Len(xs) = Len(expected)
    /\ \A i \in 1..Len(expected) : Equal(xs[i], expected[i])

CloseArray(xs, expected, tolerance) ==
    /\ Len(xs) = Len(expected)
    /\ \A i \in 1..Len(expected) : Within(xs[i], expected[i], tolerance)

HasPotentials == pc \in {"potentials", "inverse", "done"}
DefaultWeights == demand_array_arg.none /\ supply_array_arg.none

\* C1: TwoStepFCA(radius) is the gravity model with the uniform decay bound
\* to scale = radius, no Huff normalization and exponent 1; its potential[j]
\* is the sum of demand[i] over the rows i with distance[i,j] <= radius and
\* its score[i] the sum of supply[j]/potential[j] over the columns j with
\* distance[i,j] <= radius and potential[j] # 0. For radius 6 and the tests'
\* matrix with default weights the potentials are [1, 2] and the scores
\* [1.5, 0.5, 0].
C1_TwoStepFCA ==
    (args.cls = "TwoStepFCA" /\ pc # "new") =>
        LET radius == args.decay_params["scale"]
            inside(i, j) == LessEqual(distance_matrix[i][j], radius)
            potential(j) ==
                Sum([i \in 1..NumRows(distance_matrix) |->
                        IF inside(i, j) THEN demand_array[i] ELSE Zero])
            score(i) ==
                Sum([j \in 1..NumCols(distance_matrix) |->
                        IF inside(i, j) /\ ~IsZero(demand_potentials[j])
                        THEN Divide(supply_array[j], demand_potentials[j])
                        ELSE Zero])
        IN  /\ self = [decay_function |-> partial("uniform_decay", [scale |-> radius]),
                       huff_normalization |-> FALSE,
                       suboptimality_exponent |-> 1]
            /\ HasPotentials =>
                  /\ Len(demand_potentials) = NumCols(distance_matrix)
                  /\ \A j \in 1..NumCols(distance_matrix) :
                        Equal(demand_potentials[j], potential(j))
            /\ pc = "done" =>
                  /\ Len(result) = NumRows(distance_matrix)
                  /\ \A i \in 1..NumRows(distance_matrix) : Equal(result[i], score(i))
            /\ (HasPotentials /\ distance_matrix = TestMatrix
                    /\ radius = F(TestRadius) /\ DefaultWeights) =>
                  /\ SameArray(demand_potentials, <<One, F(2)>>)
                  /\ pc = "done" => SameArray(result, <<Frac(3, 2), Frac(1, 2), Zero>>)

\* The tests' case is reached, and so is a call with weights given in which a
\* demand location within the radius has no demand.
C1_Witness ==
    /\ args.cls = "TwoStepFCA"
    /\ pc = "done"
    /\ \/ distance_matrix = TestMatrix /\ SameArray(result, <<Frac(3, 2), Frac(1, 2), Zero>>)
       \/ /\ ~demand_array_arg.none
          /\ \E j \in 1..NumCols(distance_matrix) :
                /\ IsZero(demand_potentials[j])
                /\ \E i \in 1..NumRows(distance_matrix) :
                      LessEqual(distance_matrix[i][j], args.decay_params["scale"])

IsTestCall3SFCA ==
    /\ args.cls = "ThreeStepFCA"
    /\ args.decay_function = Name("uniform")
    /\ args.decay_params = [scale |-> F(TestRadius)]
    /\ HasPotentials
    /\ distance_matrix = TestMatrix
    /\ DefaultWeights

TestProbabilities ==
    << <<Frac(1, 2), Frac(1, 2)>>, <<Zero, One>>, <<Frac(1, 2), Frac(1, 2)>> >>
TestPotentials3SFCA == <<Frac(1, 2), Frac(3, 2)>>
TestScores3SFCA == <<Frac(4, 3), Frac(2, 3), Zero>>

\* C2 as claimed: ThreeStepFCA with the uniform decay of scale 6 on the
\* tests' matrix gives interaction probabilities equal to
\* [[0.5,0.5],[0,1],[0.5,0.5]], potentials equal to [0.5, 1.5] and scores
\* equal to [4/3, 2/3, 0].
C2_Original ==
    IsTestCall3SFCA =>
        /\ self.huff_normalization
        /\ \A i \in 1..3 : SameArray(interaction_probabilities[i], TestProbabilities[i])
        /\ SameArray(demand_potentials, TestPotentials3SFCA)
        /\ pc = "done" => SameArray(result, TestScores3SFCA)

\* The tolerance of np.testing.assert_array_almost_equal's six decimals.
Tolerance == Frac(1, 10^6)

\* C2 as amended: the three agree with the stated values to within 10^-6,
\* not exactly: the second row of the probabilities is
\* [1/(10^9+1), 10^9/(10^9+1)], the zero distance weighing 10^8 against 1/10.
C2_AlmostEqual ==
    IsTestCall3SFCA =>
        /\ self.huff_normalization
        /\ \A i \in 1..3 :
              CloseArray(interaction_probabilities[i], TestProbabilities[i], Tolerance)
        /\ SameArray(interaction_probabilities[2],
                     <<Frac(1, 10^9 + 1), Frac(10^9, 10^9 + 1)>>)
        /\ CloseArray(demand_potentials, TestPotentials3SFCA, Tolerance)
        /\ ~Equal(demand_potentials[2], TestPotentials3SFCA[2])
        /\ pc = "done" =>
              /\ CloseArray(result, TestScores3SFCA, Tolerance)
              /\ Equal(result[3], Zero)

C2_Witness == IsTestCall3SFCA /\ pc = "done" /\ ~SameArray(result, TestScores3SFCA)

(***************************************************************************)
(* Properties of the construction and of the decay functions (SpecDecay).  *)
(***************************************************************************)
\* The decay function the constructor's argument stands for, if any.
Resolved ==
    \/ ~args.decay_function.str
    \/ lower(args.decay_function.name) \in DOMAIN NAME_TO_FUNCTION_MAP
ResolvedFunction ==
    IF args.decay_function.str
    THEN NAME_TO_FUNCTION_MAP[lower(args.decay_function.name)]
    ELSE args.decay_function.name

\* The parameters decay.py's signatures declare after distance_array.
DeclaredAfterDistance(func) ==
    IF func = "gaussian_decay" THEN {"sigma"} ELSE {"scale"}
Declared(func) == {"distance_array"} \cup DeclaredAfterDistance(func)

Missing == DeclaredAfterDistance(ResolvedFunction) \ DOMAIN args.decay_params
Extra == DOMAIN args.decay_params \ Declared(ResolvedFunction)

\* The construction failed: no model was built.
ConstructionFailed == pc = "raised" /\ self = NoSelf

\* C3: the construction of a GravityModel from a decay function fails
\* exactly when a parameter the function declares after the distance is not
\* in decay_params; the ValueError names every missing parameter; else the
\* model is built, bound to that function.
C3_MissingParameters ==
    (pc # "new" /\ Resolved) =>
        /\ ConstructionFailed <=> Missing # {}
        /\ Missing # {} => raised = [type |-> "ValueError", params |-> Missing]
        /\ Missing = {} => self.decay_function.func = ResolvedFunction

\* The tests' case: gaussian_decay with no parameters.
C3_Witness ==
    /\ ConstructionFailed
    /\ args.decay_function = Callable("gaussian_decay")
    /\ args.decay_params = <<>>
    /\ raised = [type |-> "ValueError", params |-> {"sigma"}]

\* C4 as claimed: every parameter of decay_params the function does not
\* declare is named by a warning of the construction, which does not fail
\* because of it.
C4_Original ==
    (pc # "new" /\ Resolved) =>
        /\ Extra \subseteq warnings
        /\ ConstructionFailed => Missing # {}

\* What the construction returns with the undeclared parameters left out.
WithoutExtra ==
    bind_decay_function_parameters(
        args.decay_function, Restrict(args.decay_params, Declared(ResolvedFunction)))

\* C4 as amended: when every declared parameter is supplied, the
\* construction warns of exactly the undeclared parameters, does not fail,
\* and builds the model it builds without them (the same bound callable,
\* giving the same weights); when one is missing, the ValueError is raised
\* before any warning, and names no undeclared parameter.
C4_ExtraParameters ==
    (pc # "new" /\ Resolved) =>
        /\ Missing = {} =>
              /\ warnings = Extra
              /\ ~ConstructionFailed
              /\ WithoutExtra.raised = NoError
              /\ self.decay_function = WithoutExtra.value
              /\ pc = "applied" =>
                    decayed = call_on_array(WithoutExtra.value, distance_matrix)
        /\ Missing # {} =>
              /\ warnings = {}
              /\ ConstructionFailed
              /\ raised = WithoutExtra.raised
              /\ raised.params \cap Extra = {}

\* The tests' case, applied to a distance: gaussian_decay with sigma and
\* extra_param.
C4_Witness ==
    /\ pc = "applied"
    /\ args.decay_function = Callable("gaussian_decay")
    /\ DOMAIN args.decay_params = {"sigma", "extra_param"}
    /\ warnings = {"extra_param"}
    /\ DOMAIN self.decay_function.keywords = {"sigma"}

\* C5: every decay function maps a NaN distance to NaN and +inf to 0.
C5_NaNAndInfinity ==
    pc = "applied" =>
        \A i \in 1..NumRows(distance_matrix) : \A j \in 1..Len(distance_matrix[i]) :
            /\ IsNaN(distance_matrix[i][j]) => IsNaN(decayed[i][j])
            /\ distance_matrix[i][j] = Inf => IsZero(decayed[i][j])

AppliedUniform == pc = "applied" /\ self.decay_function.func = "uniform_decay"

\* C6 as claimed: the uniform decay gives 0 at every distance d >= scale and
\* 1 at every d < scale.
C6_Original ==
    AppliedUniform =>
        LET scale == self.decay_function.keywords["scale"]
        IN  \A i \in 1..NumRows(distance_matrix) : \A j \in 1..Len(distance_matrix[i]) :
                LET d == distance_matrix[i][j]
                IN  /\ LessEqual(scale, d) => IsZero(decayed[i][j])
                    /\ (LessEqual(d, scale) /\ ~Equal(d, scale)) => Equal(decayed[i][j], One)

\* C6 as amended: the uniform decay gives 0 at every distance d > scale and
\* 1 at every d <= scale, the boundary d = scale included.
C6_ClosedAtScale ==
    AppliedUniform =>
        LET scale == self.decay_function.keywords["scale"]
        IN  \A i \in 1..NumRows(distance_matrix) : \A j \in 1..Len(distance_matrix[i]) :
                LET d == distance_matrix[i][j]
                IN  /\ (LessEqual(scale, d) /\ ~Equal(d, scale)) => IsZero(decayed[i][j])
                    /\ LessEqual(d, scale) => Equal(decayed[i][j], One)

C6_Witness ==
    /\ AppliedUniform
    /\ Equal(distance_matrix[1][1], self.decay_function.keywords["scale"])
    /\ Equal(decayed[1][1], One)

(***************************************************************************)
(* Properties of the numeric edge cases of a call (Spec).                  *)
(***************************************************************************)
Rows == 1..NumRows(distance_matrix)
Cols == 1..NumCols(distance_matrix)

\* An entry that adds nothing to a np.nansum: a zero, or a NaN (skipped).
AddsNothing(x) == IsNaN(x) \/ IsZero(x)

\* C7: the interaction probabilities are (1/d[i,j]) / sum_k (1/d[i,k]) with
\* 10^8 for the inverse of a zero distance, so that in every row, a row of
\* +inf distances included, they sum to 1 and the normalization makes none
\* of them NaN or infinite. (A NaN distance is left out of the row's sum and
\* of what is asked of the row.)
C7_RowsSumToOne ==
    (HasPotentials /\ self.huff_normalization) =>
        \A i \in Rows :
            LET given == {j \in Cols : ~IsNaN(distance_matrix[i][j])}
                inverse(j) == IF IsZero(distance_matrix[i][j])
                              THEN F(10^8)
                              ELSE Divide(One, distance_matrix[i][j])
                total == Sum([j \in Cols |-> IF j \in given THEN inverse(j) ELSE Zero])
            IN  /\ \A j \in given :
                      /\ IsFin(interaction_probabilities[i][j])
                      /\ Equal(Multiply(interaction_probabilities[i][j], total), inverse(j))
                /\ given # {} =>
                      Equal(Sum([j \in Cols |-> IF j \in given
                                                  THEN interaction_probabilities[i][j]
                                                  ELSE Zero]),
                            One)

\* C8: a NaN at (i,j) of the distance matrix adds nothing to potential[j]
\* nor to score[i], whatever the decay, the Huff flag and the exponent, and
\* no potential or score is NaN.
C8_NaNAddsNothing ==
    /\ HasPotentials =>
          /\ \A i \in Rows : \A j \in Cols :
                IsNaN(distance_matrix[i][j]) => AddsNothing(demand_matrix[i][j])
          /\ \A j \in Cols : ~IsNaN(demand_potentials[j])
    /\ pc = "done" =>
          /\ \A i \in Rows : \A j \in Cols :
                IsNaN(distance_matrix[i][j]) => AddsNothing(access_ratio_matrix[i][j])
          /\ \A i \in Rows : ~IsNaN(result[i])

\* C9: a potential of exactly 0 has the inverse 0, and that supply location
\* adds nothing to any score, whatever its supply, the exponent and the Huff
\* flag; a potential p # 0 has the inverse 1/p.
C9_ZeroPotential ==
    /\ pc \in {"inverse", "done"} =>
          \A j \in Cols :
              /\ IsZero(demand_potentials[j]) => IsZero(inverse_demands[j])
              /\ ~IsZero(demand_potentials[j]) =>
                    /\ IsFin(inverse_demands[j])
                    /\ Equal(Multiply(inverse_demands[j], demand_potentials[j]), One)
    /\ pc = "done" =>
          /\ \A j \in Cols : IsZero(demand_potentials[j]) =>
                \A i \in Rows : AddsNothing(access_ratio_matrix[i][j])
          /\ \A i \in Rows :
                Equal(result[i],
                      NanSum([j \in Cols |-> IF IsZero(demand_potentials[j])
                                              THEN Zero
                                              ELSE access_ratio_matrix[i][j]]))

\* A supply location nobody demands, with supply, in a model whose exponent
\* 0 makes every decayed weight 1: only the inverse keeps its score out.
C9_Witness ==
    /\ pc = "done"
    /\ self.suboptimality_exponent = 0
    /\ ~self.huff_normalization
    /\ \E j \in Cols :
          /\ IsZero(demand_potentials[j])
          /\ ~IsZero(supply_array[j])
          /\ \E k \in Cols : ~IsZero(demand_potentials[k])

\* C10: the call returns num_demand scores, each of them >= 0.
C10_ScoresNonnegative ==
    pc = "done" =>
        /\ Len(result) = NumRows(distance_matrix)
        /\ \A i \in Rows : LessEqual(Zero, result[i])

\* Two demand locations, a NaN and an infinite distance among the entries,
\* a positive score and a zero one.
C10_Witness ==
    /\ pc = "done"
    /\ NumRows(distance_matrix) = 2
    /\ \E i \in Rows : \E j \in Cols : IsNaN(distance_matrix[i][j])
    /\ \E i \in Rows : \E j \in Cols : distance_matrix[i][j] = Inf
    /\ \E i \in Rows : ~IsZero(result[i])
    /\ \E i \in Rows : IsZero(result[i])

(***************************************************************************)
(* Properties of calls that share a model (SpecCalls).                     *)
(***************************************************************************)
\* The names of call c, running or not.
FrameOf(c) == IF c = current THEN Frame ELSE suspended

InCall(c) == FrameOf(c).pc \in {"called", "potentials", "inverse", "done"}

\* The arrays the caller of c passed, as they are now.
CallerArrays(c) ==
    <<FrameOf(c).distance_matrix, FrameOf(c).demand_array_arg, FrameOf(c).supply_array_arg>>

\* What call c returns if it runs alone on the model as it was built.
Isolated(c) ==
    calculate_accessibility_scores(
        [decay_function |-> bind_decay_function_parameters(
                                args.decay_function, args.decay_params).value,
         huff_normalization |-> args.huff_normalization,
         suboptimality_exponent |-> args.suboptimality_exponent],
        FrameOf(c).distance_matrix, FrameOf(c).demand_array_arg,
        FrameOf(c).supply_array_arg)

ReturnsIsolated ==
    \A c \in Calls : FrameOf(c).pc = "done" => FrameOf(c).result = Isolated(c)

SameInputsSameOutput ==
    (FrameOf(1).pc = "done" /\ FrameOf(2).pc = "done"
        /\ CallerArrays(1) = CallerArrays(2)) => FrameOf(1).result = FrameOf(2).result

FrameKept ==
    /\ pc # "new" => self' = self /\ args' = args
    /\ \A c \in Calls :
          (InCall(c) /\ InCall(c)') => CallerArrays(c)' = CallerArrays(c)

\* C11: calls have no effect on shared state. Through any sequence of calls
\* on one model, their steps interleaved, the model's decay function, Huff
\* flag and exponent stay as built and each caller's distance matrix, demand
\* and supply arrays stay as passed; every call returns what it returns run
\* alone on the same arguments, so that equal arguments give equal results.
C11_NoSideEffects ==
    /\ [](ReturnsIsolated /\ SameInputsSameOutput)
    /\ [][FrameKept]_vars

\* Both calls are under way on different matrices, one of them returning a
\* score that is not zero while the other has its potentials but not yet its
\* scores: their steps have interleaved.
C11_Witness ==
    /\ pc = "done"
    /\ suspended.pc = "potentials"
    /\ suspended.distance_matrix # distance_matrix
    /\ suspended.demand_potentials # demand_potentials
    /\ \E i \in Rows : ~IsZero(result[i]) /\ ~IsNaN(result[i])

(***************************************************************************)
(* Conservation of supply (Spec).                                          *)
(***************************************************************************)
NoNaNDistance ==
    \A i \in Rows : \A j \in Cols : ~IsNaN(distance_matrix[i][j])

\* sum_i demand[i] * score[i]
WeightedScores == Sum([i \in Rows |-> Multiply(demand_array[i], result[i])])

\* The supply of the supply locations whose potential is not zero.
ReachableSupply ==
    Sum([j \in Cols |-> IF IsZero(demand_potentials[j]) THEN Zero ELSE supply_array[j]])

\* C12: with the exponent 1, Huff normalization on or off, any decay of the
\* catalog, nonnegative weights and no NaN distance, the demand-weighted sum
\* of the scores is the total supply of the supply locations whose potential
\* is not zero.
C12_SupplyConserved ==
    (pc = "done" /\ self.suboptimality_exponent = 1 /\ NoNaNDistance) =>
        Equal(WeightedScores, ReachableSupply)

\* A Huff-normalized call with the weights given, in which one supply
\* location with supply has no potential and another one has.
C12_Witness ==
    /\ pc = "done"
    /\ self.suboptimality_exponent = 1
    /\ self.huff_normalization
    /\ NoNaNDistance
    /\ ~demand_array_arg.none /\ ~supply_array_arg.none
    /\ \E j \in Cols : IsZero(demand_potentials[j]) /\ ~IsZero(supply_array[j])
    /\ \E j \in Cols : ~IsZero(demand_potentials[j]) /\ ~IsZero(supply_array[j])
    /\ ~IsZero(WeightedScores)
    /\ \E i \in Rows : \E j \in Cols : distance_matrix[i][j] = Inf

=============================================================================
